---- MODULE Spec2Model ----
(***************************************************************************)
(* Model of the distribution-comparison and moment-matching functions of   *)
(* lightweight_mmm/utils.py:                                               *)
(*   _pmf, _estimate_pdf, distance_pior_posterior,                         *)
(*   get_beta_params_from_mu_sigma.                                        *)
(*                                                                         *)
(* Numbers.  Sample values are integers.  Quantities the code obtains by   *)
(* +, -, *, / of such values are kept as exact fractions (num over den).   *)
(* Quantities it obtains through sqrt, log and exp are fixed-point         *)
(* integers in units of 1/Scale, rounded down.  Rounding of float64 in the *)
(* last place is not modelled.                                             *)
(***************************************************************************)
EXTENDS Integers, Sequences, FiniteSets

VARIABLES
  call,      \* which function is being called: "distance" or "beta"
  p, q,      \* distance_pior_posterior: the two sample collections
  method,    \* distance_pior_posterior: the method string
  discrete,  \* distance_pior_posterior: the discrete flag
  x,         \* local x: the support grid (discrete: the values; continuous:
             \* in units of 1/(GridSize - 1))
  p_pdf,     \* local p_pdf
  q_pdf,     \* local q_pdf
  result,    \* what distance_pior_posterior returned or raised
  mu,        \* get_beta_params_from_mu_sigma: mu, a fraction
  sigma,     \* get_beta_params_from_mu_sigma: sigma, a fraction
  bracket,   \* get_beta_params_from_mu_sigma: bracket, in units of 1/Resolution
  b,         \* local b, in units of 1/Resolution
  ab,        \* what get_beta_params_from_mu_sigma returned or raised
  pc         \* position in the called function

vars == <<call, p, q, method, discrete, x, p_pdf, q_pdf, result,
          mu, sigma, bracket, b, ab, pc>>

----------------------------------------------------------------------------
(* Bounds of the model. *)

\* Longest sample collection drawn.
MaxLen == 2

\* The values samples are drawn from (unevenly spaced, one negative).
SampleValues == {-1, 0, 2}

----------------------------------------------------------------------------
(* Arithmetic. *)

\* Unit of the fixed-point numbers that stand for float64 values.
Scale == 16384

\* Unit of the kernel density values of _estimate_pdf.
KernelScale == 256

\* ln 2 in units of 1/Scale.
Ln2 == 11357

\* 1/sqrt(2 pi), the peak of the standard normal density, in units of 1/Scale.
InvSqrt2Pi == 6536

Abs(n) == IF n < 0 THEN -n ELSE n

Sign(n) == IF n < 0 THEN -1 ELSE IF n = 0 THEN 0 ELSE 1

Min2(m, n) == IF m <= n THEN m ELSE n

Max2(m, n) == IF m >= n THEN m ELSE n

RECURSIVE SumSeq(_)
SumSeq(s) == IF s = <<>> THEN 0 ELSE Head(s) + SumSeq(Tail(s))

RECURSIVE Pow2(_)
Pow2(k) == IF k = 0 THEN 1 ELSE 2 * Pow2(k - 1)

RECURSIVE IsqrtIter(_, _)
IsqrtIter(n, r) ==
  \* Newton's iteration from above: r*r >= n on entry.
  LET nxt == (r + n \div r) \div 2
  IN IF nxt >= r THEN r ELSE IsqrtIter(n, nxt)

\* Largest r with r*r <= n, for 0 <= n < 2^30.
Isqrt(n) == IF n = 0 THEN 0 ELSE IsqrtIter(n, 32768)

\* sqrt of the fraction num/den (0 <= num/den <= 2), in units of 1/Scale.
SqrtFrac(num, den) == Isqrt(((num * Scale) \div den) * Scale)

RECURSIVE Log2Frac(_, _)
Log2Frac(m, w) ==
  \* log2 of the mantissa m (Scale <= m < 2*Scale), one binary digit at a
  \* time, from the digit of weight w / Scale down to the one of weight
  \* 1 / Scale.
  IF w = 0 THEN 0
  ELSE LET sq == (m * m + Scale \div 2) \div Scale
       IN IF sq >= 2 * Scale
          THEN w + Log2Frac(sq \div 2, w \div 2)
          ELSE Log2Frac(sq, w \div 2)

RECURSIVE Log2Fixed(_)
Log2Fixed(v) ==
  \* log2 of v / Scale, for v > 0, in units of 1/Scale.
  IF v >= 2 * Scale THEN Scale + Log2Fixed(v \div 2)
  ELSE IF v < Scale THEN Log2Fixed(2 * v) - Scale
  ELSE Log2Frac(v, Scale \div 2)

\* Natural logarithm of v / Scale, for v > 0, in units of 1/Scale.
Ln(v) == (Log2Fixed(v) * Ln2) \div Scale

\* exp(-t / Scale) for t >= 0, in units of 1/Scale.
ExpNeg(t) ==
  LET k  == t \div Ln2
      r  == t - k * Ln2
      h4 == Scale - r \div 4
      h3 == Scale - (r * h4) \div (3 * Scale)
      h2 == Scale - (r * h3) \div (2 * Scale)
      h1 == Scale - (r * h2) \div Scale
  IN IF k >= 30 THEN 0 ELSE h1 \div Pow2(k)

----------------------------------------------------------------------------
(* Values the functions work on. *)

\* A vector divided by its sum: entry i is num[i] / den.  st is "ok", "nan"
\* (a division 0/0), "unbound" (the local was never assigned) or the name of
\* the exception its construction raised.
Vec(st, num, den) == [st |-> st, num |-> num, den |-> den]

Unbound == Vec("unbound", <<>>, 0)

\* What a call returned or raised: a number num/den, NaN, or an exception.
Value(num, den) == [kind |-> "value", num |-> num, den |-> den, err |-> ""]

NaN == [kind |-> "nan", num |-> 0, den |-> 1, err |-> ""]

Raised(e) == [kind |-> "error", num |-> 0, den |-> 1, err |-> e]

NoResult == [kind |-> "none", num |-> 0, den |-> 1, err |-> ""]

\* The method strings the dispatcher names.
Methods == {"KS", "Hellinger", "JS", "min"}

\* The methods that go through an estimator (the elif of the dispatcher).
EstimatorMethods == {"Hellinger", "JS", "min"}

\* Method strings drawn as input: the four supported ones and one that is not.
MethodStrings == Methods \cup {"bogus"}

\* v / v.sum() of numpy: 0/0 is nan.
Normalize(v) ==
  LET total == SumSeq(v)
  IN IF total = 0 THEN Vec("nan", v, 0) ELSE Vec("ok", v, total)

----------------------------------------------------------------------------
(* _pmf *)

RECURSIVE SortSet(_)
SortSet(S) ==
  IF S = {} THEN <<>>
  ELSE LET m == CHOOSE m \in S : \A y \in S : m <= y
       IN <<m>> \o SortSet(S \ {m})

\* jnp.unique: the sorted distinct values.
Unique(s) == SortSet({s[i] : i \in DOMAIN s})

\* Cdf with the comparison p < x[i] in place of p <= x[i].
Cdf_strict(s, grid) ==
  [i \in 1..Len(grid) |-> Cardinality({j \in DOMAIN s : s[j] < grid[i]})]

\* p_cdf of _pmf: how many samples are <= each grid point.
Cdf(s, grid) ==
  [i \in 1..Len(grid) |-> Cardinality({j \in DOMAIN s : s[j] <= grid[i]})]

\* jnp.diff
Diff(c) == [i \in 1..(Len(c) - 1) |-> c[i + 1] - c[i]]

\* _pmf without the leading p_cdf[0]: the differences alone.
_pmf_without_first(s, grid) ==
  IF Len(grid) = 0 THEN Vec("IndexError", <<>>, 0)
  ELSE Normalize(Diff(Cdf(s, grid)))

\* _pmf(p, x); indexing p_cdf[0] of an empty p_cdf raises IndexError.
_pmf(s, grid) ==
  IF Len(grid) = 0 THEN Vec("IndexError", <<>>, 0)
  ELSE LET p_cdf == Cdf(s, grid)
       IN Normalize(<<p_cdf[1]>> \o Diff(p_cdf))

----------------------------------------------------------------------------
(* _estimate_pdf *)

\* Number of points of the continuous grid.
GridSize == 100

MinSeq(s) == CHOOSE m \in {s[i] : i \in DOMAIN s} : \A j \in DOMAIN s : m <= s[j]

MaxSeq(s) == CHOOSE m \in {s[i] : i \in DOMAIN s} : \A j \in DOMAIN s : m >= s[j]

\* np.linspace(minx, maxx, GridSize), in units of 1/(GridSize - 1).
Linspace(minx, maxx) ==
  [k \in 1..GridSize |-> (GridSize - 1) * minx + (k - 1) * (maxx - minx)]

\* stats.norm(xi).pdf at distance d/(GridSize - 1) from xi, in units of
\* 1/KernelScale.
NormPdf(d) ==
  LET t == (((d * d) \div 2) * Scale) \div ((GridSize - 1) * (GridSize - 1))
  IN (((ExpNeg(t) * InvSqrt2Pi) \div Scale) * KernelScale) \div Scale

\* _estimate_pdf(p, x); sum() of no arrays is the int 0, which has no .sum().
_estimate_pdf(s, grid) ==
  IF s = <<>> THEN Vec("AttributeError", <<>>, 0)
  ELSE Normalize([i \in 1..Len(grid) |->
         SumSeq([j \in 1..Len(s) |->
           NormPdf(Abs(grid[i] - (GridSize - 1) * s[j]))])])

----------------------------------------------------------------------------
(* The four metrics. *)

\* ks_2samp with the one-sided statistic max(cdf1 - cdf2).
ks_2samp_one_sided(s1, s2) ==
  IF s1 = <<>> \/ s2 = <<>> THEN Raised("ValueError")
  ELSE LET n1 == Len(s1)
           n2 == Len(s2)
           data_all == s1 \o s2
           cddiffs == [i \in 1..Len(data_all) |->
             Cardinality({j \in DOMAIN s1 : s1[j] <= data_all[i]}) * n2
             - Cardinality({j \in DOMAIN s2 : s2[j] <= data_all[i]}) * n1]
       IN Value(Max2(0, MaxSeq(cddiffs)), n1 * n2)

\* stats.ks_2samp(p, q).statistic: the largest gap between the two empirical
\* CDFs over the pooled samples.  Empty data raises ValueError.
ks_2samp(s1, s2) ==
  IF s1 = <<>> \/ s2 = <<>> THEN Raised("ValueError")
  ELSE LET n1 == Len(s1)
           n2 == Len(s2)
           data_all == s1 \o s2
           \* cdf1 - cdf2 at each pooled sample, over n1 * n2
           cddiffs == [i \in 1..Len(data_all) |->
             Cardinality({j \in DOMAIN s1 : s1[j] <= data_all[i]}) * n2
             - Cardinality({j \in DOMAIN s2 : s2[j] <= data_all[i]}) * n1]
           lowest  == MinSeq(cddiffs)
           minS    == Min2(Max2(-lowest, 0), n1 * n2)
           maxS    == MaxSeq(cddiffs)
       IN Value(Max2(minS, maxS), n1 * n2)

\* Hellinger without the division by sqrt(2).
Hellinger_unscaled(pv, qv) ==
  IF pv.st = "nan" \/ qv.st = "nan" THEN NaN
  ELSE LET sq == [i \in 1..Len(pv.num) |->
                   LET d == SqrtFrac(pv.num[i], pv.den) - SqrtFrac(qv.num[i], qv.den)
                   IN d * d]
       IN Value(Isqrt(SumSeq(sq)), Scale)

\* sqrt(sum((sqrt(p_pdf) - sqrt(q_pdf)) ** 2)) / sqrt(2)
Hellinger(pv, qv) ==
  IF pv.st = "nan" \/ qv.st = "nan" THEN NaN
  ELSE LET sq == [i \in 1..Len(pv.num) |->
                   LET d == SqrtFrac(pv.num[i], pv.den) - SqrtFrac(qv.num[i], qv.den)
                   IN d * d]
       IN Value((Isqrt(SumSeq(sq)) * Scale) \div Isqrt(2 * Scale * Scale), Scale)

\* scipy's rel_entr(u, m) with m = m2 / 2: u * log(u / m) for u > 0, 0 for
\* u = 0; u and m2 in units of 1/Scale, the result in units of 1/Scale^2.
RelEntr(u, m2) ==
  IF u = 0 THEN 0 ELSE u * Ln((2 * u * Scale) \div m2)

\* spatial.distance.jensenshannon(p_pdf, q_pdf): both vectors are divided by
\* their sums, m is their mean, and the result is
\* sqrt((sum(rel_entr(p, m)) + sum(rel_entr(q, m))) / 2).
jensenshannon(pv, qv) ==
  IF pv.st = "nan" \/ qv.st = "nan" THEN NaN
  ELSE LET pn == Normalize(pv.num)
           qn == Normalize(qv.num)
           pf == [i \in 1..Len(pn.num) |-> (pn.num[i] * Scale) \div pn.den]
           qf == [i \in 1..Len(qn.num) |-> (qn.num[i] * Scale) \div qn.den]
           left  == [i \in 1..Len(pf) |-> RelEntr(pf[i], pf[i] + qf[i])]
           right == [i \in 1..Len(qf) |-> RelEntr(qf[i], pf[i] + qf[i])]
           js == SumSeq(left) + SumSeq(right)
       IN IF js < 0 THEN NaN ELSE Value(Isqrt(js \div 2), Scale)

\* MinOverlap without the "1 -": the overlap itself.
MinOverlap_uncomplemented(pv, qv) ==
  IF pv.st = "nan" \/ qv.st = "nan" THEN NaN
  ELSE LET overlap == [i \in 1..Len(pv.num) |->
                        Min2(pv.num[i] * qv.den, qv.num[i] * pv.den)]
       IN Value(SumSeq(overlap), pv.den * qv.den)

\* 1 - np.minimum(p_pdf, q_pdf).sum()
MinOverlap(pv, qv) ==
  IF pv.st = "nan" \/ qv.st = "nan" THEN NaN
  ELSE LET overlap == [i \in 1..Len(pv.num) |->
                        Min2(pv.num[i] * qv.den, qv.num[i] * pv.den)]
       IN Value(pv.den * qv.den - SumSeq(overlap), pv.den * qv.den)

----------------------------------------------------------------------------
(* distance_pior_posterior *)

\* The locals after the branch "elif method in [...]": x, p_pdf, q_pdf, and
\* the exception raised while building them ("" when none was).
Locals(grid, pv, qv, err) == [x |-> grid, p_pdf |-> pv, q_pdf |-> qv, err |-> err]

IsException(v) == v.st \notin {"ok", "nan", "unbound"}

\* x = jnp.unique(jnp.concatenate((p, q)))
DiscreteGrid(s1, s2) == Unique(s1 \o s2)

\* minx, maxx = min(p.min(), q.min()), max(p.max(), q.max())
\* x = np.linspace(minx, maxx, 100)
ContinuousGrid(s1, s2) ==
  Linspace(Min2(MinSeq(s1), MinSeq(s2)), Max2(MaxSeq(s1), MaxSeq(s2)))

\* if discrete: x = ...; p_pdf = _pmf(p, x); q_pdf = _pmf(q, x)
DiscreteEstimators(s1, s2) ==
  LET grid == DiscreteGrid(s1, s2)
      pv   == _pmf(s1, grid)
      qv   == _pmf(s2, grid)
  IN IF IsException(pv) THEN Locals(grid, Unbound, Unbound, pv.st)
     ELSE IF IsException(qv) THEN Locals(grid, pv, Unbound, qv.st)
     ELSE Locals(grid, pv, qv, "")

\* else: minx, maxx = ...; x = np.linspace(minx, maxx, 100); p_pdf = ...; q_pdf = ...
\* min() and max() of an empty array raise ValueError.
ContinuousEstimators(s1, s2) ==
  IF s1 = <<>> \/ s2 = <<>> THEN Locals(<<>>, Unbound, Unbound, "ValueError")
  ELSE LET grid == ContinuousGrid(s1, s2)
           pv   == _estimate_pdf(s1, grid)
           qv   == _estimate_pdf(s2, grid)
       IN Locals(grid, pv, qv, "")

\* Estimators with "else" in place of "elif method in [...]".
Estimators_else(s1, s2, m, d) ==
  IF d THEN DiscreteEstimators(s1, s2) ELSE ContinuousEstimators(s1, s2)

\* The if/elif that builds the estimators; any other method leaves the
\* locals unassigned.
Estimators(s1, s2, m, d) ==
  IF m \in EstimatorMethods
  THEN IF d THEN DiscreteEstimators(s1, s2) ELSE ContinuousEstimators(s1, s2)
  ELSE Locals(<<>>, Unbound, Unbound, "")

\* The final if/elif/else; reading an unassigned local raises
\* UnboundLocalError.
FinalDispatch(m, pv, qv) ==
  IF pv.st = "unbound" \/ qv.st = "unbound" THEN Raised("UnboundLocalError")
  ELSE IF m = "Hellinger" THEN Hellinger(pv, qv)
  ELSE IF m = "JS" THEN jensenshannon(pv, qv)
  ELSE MinOverlap(pv, qv)

\* The whole call.
distance_pior_posterior(s1, s2, m, d) ==
  IF m = "KS" THEN ks_2samp(s1, s2)
  ELSE LET loc == Estimators(s1, s2, m, d)
       IN IF loc.err # "" THEN Raised(loc.err)
          ELSE FinalDispatch(m, loc.p_pdf, loc.q_pdf)

----------------------------------------------------------------------------
(* get_beta_params_from_mu_sigma *)

\* A fraction n/d.
Frac(n, d) == [n |-> n, d |-> d]

\* The fraction n/d with a positive denominator (d # 0).
FracNorm(n, d) == IF d < 0 THEN Frac(-n, -d) ELSE Frac(n, d)

FracSign(f) == Sign(f.n) * Sign(f.d)

\* Candidates for b are the multiples of 1/Resolution: the root finder
\* returns a root only up to its tolerance.
Resolution == 4

\* What the solver returned or raised: the pair (a, b) or an exception.
Pair(fa, fb) == [kind |-> "pair", a |-> fa, b |-> fb, err |-> ""]

PairRaised(e) == [kind |-> "error", a |-> Frac(0, 1), b |-> Frac(0, 1), err |-> e]

NoPair == [kind |-> "none", a |-> Frac(0, 1), b |-> Frac(0, 1), err |-> ""]

\* The sign of _f(k / Resolution) for k # 0 and sigma # 0, where
\*   _f(x) = x ** 2 + 4 * x + 5 + 2 / x - 1 / sigma ** 2
\* and, with x = k/R and sigma = n/d,
\*   _f(x) = (n^2 (k^3 + 4 k^2 R + 5 k R^2 + 2 R^3) - d^2 R^2 k) / (n^2 R^2 k).
FSign(k, s) ==
  LET R == Resolution
      numer == s.n * s.n * (k * k * k + 4 * k * k * R + 5 * k * R * R + 2 * R * R * R)
               - s.d * s.d * R * R * k
  IN Sign(numer) * Sign(k)

\* The grid point next to k on the side dir (-1 or 1) at which _f is defined:
\* _f has a pole at 0.
Beside(k, dir) == IF k + dir = 0 THEN k + 2 * dir ELSE k + dir

\* _f changes sign at k: it is 0 there, or has the opposite sign at the
\* point beside k within lo..hi.
SignChangeAt(k, s, lo, hi) ==
  \/ FSign(k, s) = 0
  \/ \E dir \in {-1, 1} :
       /\ Beside(k, dir) \in lo..hi
       /\ FSign(k, s) * FSign(Beside(k, dir), s) < 0

\* optimize.root_scalar(_f, bracket=bracket, method="brentq"): the outcomes.
\* _f is evaluated at both ends first (2 / x and 1 / sigma ** 2 raise
\* ZeroDivisionError for a zero divisor); equal signs at the ends raise
\* ValueError; otherwise the search narrows the bracket onto a sign change of
\* _f and returns a point of it.  Which sign change, when the bracket holds
\* several, and whether the search evaluates _f at exactly 0 when the bracket
\* holds 0, depend on the iteration: every such outcome is possible.
root_scalar(s, br) ==
  LET lo == br[1]
      hi == br[2]
  IN IF lo = 0 \/ hi = 0 \/ s.n = 0 THEN {PairRaised("ZeroDivisionError")}
     ELSE IF FSign(lo, s) * FSign(hi, s) > 0 THEN {PairRaised("ValueError")}
     ELSE {Pair(Frac(0, 1), Frac(k, Resolution)) :
             k \in {j \in (lo..hi) \ {0} : SignChangeAt(j, s, lo, hi)}}
          \cup (IF lo < 0 /\ 0 < hi THEN {PairRaised("ZeroDivisionError")} ELSE {})

\* a = b / (1 / mu - 1); a zero divisor raises ZeroDivisionError.
RecoverA(fb, m) ==
  IF m.n = 0 THEN PairRaised("ZeroDivisionError")
  ELSE LET inv   == Frac(m.d, m.n)                    \* 1 / mu
           denom == Frac(inv.n - inv.d, inv.d)        \* 1 / mu - 1
       IN IF denom.n = 0 THEN PairRaised("ZeroDivisionError")
          ELSE Pair(FracNorm(fb.n * denom.d, fb.d * denom.n), fb)

----------------------------------------------------------------------------
(* Inputs. *)

RECURSIVE SeqsUpTo(_, _)
SeqsUpTo(S, n) ==
  IF n = 0 THEN {<<>>}
  ELSE SeqsUpTo(S, n - 1) \cup {Append(s, v) : s \in {t \in SeqsUpTo(S, n - 1) : Len(t) = n - 1}, v \in S}

\* The sample collections drawn: every sequence over SampleValues of length
\* at most MaxLen, the empty one included.
Samples == SeqsUpTo(SampleValues, MaxLen)

\* mu drawn: inside (0, 1), its two ends, and outside.
MuSet == {Frac(-1, 2), Frac(0, 1), Frac(1, 4), Frac(1, 2), Frac(3, 4),
          Frac(1, 1), Frac(3, 2)}

\* sigma drawn: positive, zero and negative.
SigmaSet == {Frac(-1, 10), Frac(0, 1), Frac(1, 10), Frac(1, 4), Frac(1, 3)}

\* Ends of the brackets drawn, in units of 1/Resolution; 2 and 400 are the
\* default bracket (.5, 100.).
BracketEnds == {-400, -8, -2, 0, 1, 2, 4, 40, 400}

Brackets == {br \in BracketEnds \X BracketEnds : br[1] < br[2]}

DefaultBracket == <<2, 400>>

----------------------------------------------------------------------------
(* The state machine: one call of one of the two functions. *)

Init ==
  /\ call \in {"distance", "beta"}
  /\ IF call = "distance"
     THEN /\ p \in Samples
          /\ q \in Samples
          /\ method \in MethodStrings
          /\ discrete \in BOOLEAN
          /\ mu = Frac(1, 2)
          /\ sigma = Frac(1, 10)
          /\ bracket = DefaultBracket
     ELSE /\ p = <<>>
          /\ q = <<>>
          /\ method = "KS"
          /\ discrete = TRUE
          /\ mu \in MuSet
          /\ sigma \in SigmaSet
          /\ bracket \in Brackets
  /\ x = <<>>
  /\ p_pdf = Unbound
  /\ q_pdf = Unbound
  /\ result = NoResult
  /\ b = Frac(0, 1)
  /\ ab = NoPair
  /\ pc = "start"

\* if method == "KS": return stats.ks_2samp(p, q).statistic
KS ==
  /\ call = "distance" /\ pc = "start" /\ method = "KS"
  /\ result' = ks_2samp(p, q)
  /\ pc' = "done"
  /\ UNCHANGED <<call, p, q, method, discrete, x, p_pdf, q_pdf, mu, sigma, bracket, b, ab>>

\* elif method in ["Hellinger", "JS", "min"]: build x, p_pdf, q_pdf; any
\* other method falls through with the locals unassigned.
BuildEstimators ==
  /\ call = "distance" /\ pc = "start" /\ method # "KS"
  /\ LET loc == Estimators(p, q, method, discrete)
     IN /\ x' = loc.x
        /\ p_pdf' = loc.p_pdf
        /\ q_pdf' = loc.q_pdf
        /\ IF loc.err # ""
           THEN result' = Raised(loc.err) /\ pc' = "done"
           ELSE result' = result /\ pc' = "final"
  /\ UNCHANGED <<call, p, q, method, discrete, mu, sigma, bracket, b, ab>>

\* if method == "Hellinger": ... elif method == "JS": ... else: ...
Final ==
  /\ call = "distance" /\ pc = "final"
  /\ result' = FinalDispatch(method, p_pdf, q_pdf)
  /\ pc' = "done"
  /\ UNCHANGED <<call, p, q, method, discrete, x, p_pdf, q_pdf, mu, sigma, bracket, b, ab>>

\* b = optimize.root_scalar(_f, bracket=bracket, method="brentq").root
FindRoot ==
  /\ call = "beta" /\ pc = "start"
  /\ \E out \in root_scalar(sigma, bracket) :
       IF out.kind = "error"
       THEN ab' = out /\ b' = b /\ pc' = "done"
       ELSE ab' = ab /\ b' = out.b /\ pc' = "rooted"
  /\ UNCHANGED <<call, p, q, method, discrete, x, p_pdf, q_pdf, result, mu, sigma, bracket>>

\* a = b / (1 / mu - 1); return a, b
ReturnPair ==
  /\ call = "beta" /\ pc = "rooted"
  /\ ab' = RecoverA(b, mu)
  /\ pc' = "done"
  /\ UNCHANGED <<call, p, q, method, discrete, x, p_pdf, q_pdf, result, mu, sigma, bracket, b>>

Next == KS \/ BuildEstimators \/ Final \/ FindRoot \/ ReturnPair

Spec == Init /\ [][Next]_vars

----------------------------------------------------------------------------
(* Properties. *)

Count(s, v) == Cardinality({j \in DOMAIN s : s[j] = v})

Range(s) == {s[j] : j \in DOMAIN s}

NonEmptyInputs == p # <<>> /\ q # <<>>

\* The discrete estimators have been built from non-empty p and q.
DiscreteBuilt ==
  /\ call = "distance" /\ pc \in {"final", "done"}
  /\ method \in EstimatorMethods /\ discrete
  /\ NonEmptyInputs

\* A returned distance has been produced by a call with a supported method.
Returned == call = "distance" /\ pc = "done" /\ method \in Methods

\* v is a probability vector over grid: one entry per grid point, every entry
\* >= 0, and the entries num[i] / den sum to 1.
IsDistribution(v, grid) ==
  /\ v.st = "ok"
  /\ Len(v.num) = Len(grid)
  /\ \A i \in 1..Len(v.num) : v.num[i] >= 0
  /\ v.den > 0
  /\ SumSeq(v.num) = v.den

\* C1: for non-empty p and q and x the sorted distinct values of both, _pmf
\* returns one entry per grid point, every entry >= 0, summing to 1, with no
\* division by zero (also when all samples of p are equal).
C1_PmfIsDistribution ==
  DiscreteBuilt => IsDistribution(p_pdf, x) /\ IsDistribution(q_pdf, x)

\* C1 witness: all samples of p are equal, the grid has three points, and
\* both vectors have been built.
C1_Witness ==
  /\ DiscreteBuilt
  /\ Len(p) = 2 /\ Cardinality(Range(p)) = 1
  /\ Len(x) = 3
  /\ p_pdf.st = "ok" /\ q_pdf.st = "ok"

\* C2: for non-empty p and q, every supported method and discrete = True,
\* the call returns a number in [0, 1].
C2_DistanceInUnitInterval ==
  (Returned /\ discrete /\ NonEmptyInputs) =>
    /\ result.kind = "value"
    /\ result.den > 0
    /\ 0 <= result.num
    /\ result.num <= result.den

\* C2 witness: collections of different lengths whose JS distance lies
\* strictly between 0 and 1.
C2_Witness ==
  /\ Returned /\ discrete /\ NonEmptyInputs
  /\ method = "JS" /\ Len(p) # Len(q)
  /\ result.kind = "value" /\ 0 < result.num /\ result.num < result.den

SameMultiset(s1, s2) == \A v \in Range(s1) \cup Range(s2) : Count(s1, v) = Count(s2, v)

\* C3: for non-empty p and q that are the same multiset (p = q included),
\* every supported method and discrete = True, the distance is 0.
C3_IdenticalGivesZero ==
  (Returned /\ discrete /\ NonEmptyInputs /\ SameMultiset(p, q)) =>
    result.kind = "value" /\ result.num = 0

\* C3 witness: the same multiset in a different order, with two distinct
\* values, compared by the "min" method.
C3_Witness ==
  /\ Returned /\ discrete /\ NonEmptyInputs
  /\ SameMultiset(p, q) /\ p # q
  /\ method = "min"
  /\ result.kind = "value"

\* C4: for non-empty p and q, every supported method and either value of the
\* discrete flag, the call on (p, q) returns what the call on (q, p)
\* returns, and the support grid built from (p, q) is the one built from
\* (q, p).
C4_Symmetry ==
  /\ (Returned /\ NonEmptyInputs) =>
       /\ result.kind = "value"
       /\ result = distance_pior_posterior(q, p, method, discrete)
  /\ (call = "distance" /\ pc = "final" /\ method \in EstimatorMethods /\ NonEmptyInputs) =>
       x = IF discrete THEN DiscreteGrid(q, p) ELSE ContinuousGrid(q, p)

\* C4 witness: two different collections of different lengths at a positive
\* Hellinger distance on the continuous path.
C4_Witness ==
  /\ Returned /\ NonEmptyInputs
  /\ method = "Hellinger" /\ ~discrete
  /\ Len(p) # Len(q) /\ ~SameMultiset(p, q)
  /\ result.kind = "value" /\ result.num > 0

\* C8: for every method string outside the four supported ones, either
\* value of the discrete flag and non-empty p and q, the call ends in an
\* error: it returns no number, and in particular not the value of the final
\* "min" computation.
C8_InvalidMethodRaises ==
  (call = "distance" /\ pc = "done" /\ method \notin Methods /\ NonEmptyInputs) =>
    result.kind = "error"

\* C8 witness: a finished call with the method "bogus", non-empty inputs and
\* discrete = False.
C8_Witness ==
  /\ call = "distance" /\ pc = "done"
  /\ method = "bogus" /\ NonEmptyInputs /\ ~discrete

\* C10: on the discrete path entry i of _pmf(p, x) is (number of samples of p
\* equal to x[i]) / len(p), so it is 0 exactly at the grid points that occur
\* only in q; and distance(p, q, "min", True) is 1 when p and q share no
\* value.
C10_PmfIsRelativeFrequency ==
  /\ DiscreteBuilt =>
       /\ p_pdf.st = "ok" /\ q_pdf.st = "ok"
       /\ Len(p_pdf.num) = Len(x) /\ Len(q_pdf.num) = Len(x)
       /\ \A i \in 1..Len(x) :
            /\ p_pdf.num[i] * Len(p) = Count(p, x[i]) * p_pdf.den
            /\ q_pdf.num[i] * Len(q) = Count(q, x[i]) * q_pdf.den
            /\ (p_pdf.num[i] = 0) <=> (x[i] \notin Range(p))
  /\ (DiscreteBuilt /\ pc = "done" /\ method = "min" /\ Range(p) \cap Range(q) = {}) =>
       result.kind = "value" /\ result.num = result.den

\* C10 witness: p holds a repeated value, the grid holds a point that occurs
\* only in q, and the "min" distance of two collections without a common
\* value has been returned.
C10_Witness ==
  /\ DiscreteBuilt /\ pc = "done" /\ method = "min"
  /\ Range(p) \cap Range(q) = {}
  /\ Len(p) = 2 /\ Cardinality(Range(p)) = 1
  /\ \E i \in 1..Len(x) : x[i] \notin Range(p)

\* C7: for every supported method and either value of the discrete flag, a
\* call with p empty or q empty ends in an error; it returns neither a
\* number nor NaN.
C7_EmptyInputRaises ==
  (Returned /\ (p = <<>> \/ q = <<>>)) => result.kind = "error"

FracBetween0And1(f) == 0 < f.n /\ f.n < f.d

\* The solver has returned a pair.
ReturnedPair == call = "beta" /\ pc = "done" /\ ab.kind = "pair"

\* C5: whenever the solver returns (a, b) for 0 < mu < 1 and sigma > 0, with
\* whatever bracket, a > 0 and b > 0.
C5_PairIsPositive ==
  (ReturnedPair /\ FracBetween0And1(mu) /\ FracSign(sigma) > 0) =>
    FracSign(ab.a) > 0 /\ FracSign(ab.b) > 0

\* b = k / Resolution is a root of _f up to the resolution: _f is 0 at b, or
\* changes sign between b and the next multiple of 1/Resolution on one side,
\* with no pole in between.
IsRoot(k, s) ==
  /\ k # 0
  /\ \/ FSign(k, s) = 0
     \/ \E dir \in {-1, 1} : k + dir # 0 /\ FSign(k, s) * FSign(k + dir, s) < 0

\* C6: whenever the solver returns (a, b) for 0 < mu < 1, b is a root of _f
\* inside the bracket, a = b / (1 / mu - 1), and the Beta mean a / (a + b)
\* equals mu.
C6_RootAndMeanRecovery ==
  (ReturnedPair /\ FracBetween0And1(mu)) =>
    /\ ab.b.d = Resolution
    /\ bracket[1] <= ab.b.n /\ ab.b.n <= bracket[2]
    /\ IsRoot(ab.b.n, sigma)
    \* a * (1 / mu - 1) = b, that is a * (mu.d - mu.n) / mu.n = b
    /\ ab.a.n * (mu.d - mu.n) * ab.b.d = ab.b.n * ab.a.d * mu.n
    \* a / (a + b) = mu, that is a * mu.d = mu.n * (a + b)
    /\ ab.a.n * ab.b.d * mu.d = mu.n * (ab.a.n * ab.b.d + ab.b.n * ab.a.d)

\* mu is not strictly between 0 and 1, or sigma is not strictly positive.
ParameterOutOfRange == ~FracBetween0And1(mu) \/ FracSign(sigma) <= 0

\* C9: a call with mu outside (0, 1) or sigma <= 0 is rejected before the
\* root search and before the division that recovers a: the root search
\* never completes, no pair is returned, and the call does not fail by
\* dividing by zero.
C9_ParametersValidated ==
  (call = "beta" /\ ParameterOutOfRange) =>
    /\ pc # "rooted"
    /\ pc = "done" => (ab.kind = "error" /\ ab.err # "ZeroDivisionError")

====
